---------------------------- MODULE Spec2Model ----------------------------
(***************************************************************************)
(* WeatharrStation: the rendering-and-streaming pipeline.                  *)
(*                                                                         *)
(*   - FFMPEGStreamer (weatherstream/output/stream_ffmpeg.py): the encoder *)
(*     subprocess, the bounded frame queue, the writer thread and the      *)
(*     start / send / stop / _restart lifecycle.   Specification: Spec     *)
(*   - Scheduler, Compositor, Layer (weatherstream/core): the cadence heap *)
(*     and the presentation loop.                  Specification: SpecSched*)
(*                                                                         *)
(* Time is counted in integer clock units, TicksPerSec units to a second.  *)
(***************************************************************************)
EXTENDS Integers, Sequences, FiniteSets, TLC

(***************************************************************************)
(* Bounds of the model                                                     *)
(***************************************************************************)
MaxFrames == 3      \* frames the application passes to send()

MaxLaunch == 2      \* encoder subprocesses ever launched (Popen calls)

MaxWriters == 2     \* writer threads ever created

max_queue == 1      \* FFMPEGStreamer.max_queue, max(1, int(max_queue))

MaxTime == 3        \* clock units the wall clock is followed for

NumLayers == 2      \* layers registered with the scheduler

MaxContent == 2     \* distinct pictures a layer's data can ask for

MaxChanges == 1     \* changes of the layers' data that are followed

MaxToggles == 1     \* set_visible calls that change a layer's visibility

MaxOps == 4         \* direct calls of tick, set_visible, compose and present

MaxCallers == 2     \* threads that call PageCycler.activate

MaxActivations == 2 \* activate calls the threads make

MaxReaders == 2     \* threads that call DataStore.read

MaxReads == 2       \* read() calls the threads make

MaxFetches == 3     \* calls of the fetcher the fetch loop makes

NumKeys == 2        \* keys of the mapping a successful fetch returns

MaxUrlLen == 4      \* pieces of a destination URL after its host and port

udp_pkt_size == 1316 \* FFMPEGStreamer.udp_pkt_size, the default of __init__

TicksPerSec == 10   \* clock units to a second: one unit is the period of 10 Hz

Frames == 1..MaxFrames

Procs == 1..MaxLaunch

Writers == 1..MaxWriters

NoneSentinel == 0   \* the None that stop() puts into the queue

VARIABLES
  \* ---- FFMPEGStreamer ----
  drop_when_behind, \* self.drop_when_behind
  proc,             \* self.proc: 0 is None, else the Popen handle
  procState,        \* per launched subprocess: "unborn" | "alive" | "dead"
  stdinOpen,        \* per subprocess: proc.stdin not yet closed on our side
  launched,         \* number of Popen calls so far
  proc_dead,        \* self._proc_dead
  hasQueue,         \* self._queue is not None
  queue,            \* contents of self._queue, oldest first
  stop_event,       \* self._stop_event.is_set()
  writer_thread,    \* self._writer_thread: 0 is None, else a writer
  wpc,              \* per writer thread: position in _writer_loop
  wpayload,         \* per writer thread: local variable payload
  wtarget,          \* per writer thread: the subprocess whose pipe os.write uses
  lock,             \* holder of self._proc_lock: 0 free, else a writer
  written,          \* history: <<subprocess, frame>> written to a stdin, in order
  apc,              \* application thread: position
  astack,           \* application thread: return positions of the calls in progress
  aframe,           \* application thread: argument of the send() in progress
  sent,             \* number of send() calls made so far
  sendResult,       \* outcome of the last finished send(): "none" | "True" | "False"
  aneed,            \* history: the subprocess had died when the send() in progress began
  alaunch,          \* history: Popen calls made by the public call in progress
  lastOp            \* history: the public call that returned last

\* groups of variables, for the UNCHANGED clauses
procVars == <<proc, procState, stdinOpen, launched, proc_dead>>

queueVars == <<hasQueue, queue>>

writerVars == <<stop_event, writer_thread, wpc, wpayload, wtarget, lock>>

sendVars == <<aframe, sent, sendResult, aneed>>

sinkVars == <<drop_when_behind, procVars, queueVars, writerVars, sendVars, written,
              apc, astack, alaunch, lastOp>>

VARIABLES
  \* ---- Layer (one entry per layer, in the scheduler's z-sorted order) ----
  nlayers,          \* len(Scheduler.layers)
  min_interval,     \* Layer.min_interval, in clock units
  visible,          \* Layer.visible
  last_hash,        \* Layer._last_hash: 0 is None, else the hash of a picture
  surface,          \* Layer.surface: 0 is the blank surface, else a picture
  ldata,            \* the picture the layer's data asks for at present
  \* ---- Compositor ----
  front,            \* Compositor.front: which of the two buffers, "A" or "B"
  buffers,          \* contents of both buffers: the pastes made, bottom first
  \* ---- Scheduler ----
  cfr,              \* Scheduler.cfr: 0 is None, else the rate in Hz
  heap,             \* Scheduler.heap: <<deadline, layer>> entries, smallest first
  next_cfr,         \* Scheduler.next_cfr; Infinity when no rate is set
  spc,              \* scheduler thread: position in run_forever
  should_stop,      \* whether run_forever was called with should_stop=...
  now,              \* run_forever: local variable now
  cur,              \* run_forever: local variable idx of the layer being ticked
  rects,            \* run_forever: local variable rects (number of rects returned)
  dirty,            \* run_forever: local variable dirty (layers of its entries)
  ci,               \* Compositor.compose: next layer of its for loop
  frame,            \* run_forever: local variable frame (a buffer name)
  \* ---- the clock and the other threads ----
  clock,            \* what time.time() returns
  changes,          \* number of data changes so far
  toggles,          \* number of visibility changes so far
  \* ---- history of the iteration in progress or just finished ----
  iterations,       \* iterations of the while loop that have finished
  iterDue,          \* layers whose deadline had passed when the drain began
  iterTicked,       \* layers ticked, in order
  iterChanged,      \* layers whose tick returned rects
  iterShown,        \* layers that were visible when their rects were looked at
  iterNextCfr,      \* next_cfr when the iteration began
  iterFront,        \* front buffer when the iteration began
  iterComposes,     \* compose() calls
  iterPresents,     \* present() calls
  iterCallbacks,    \* on_present() calls
  \* ---- history of the whole run, kept when a scenario is being observed ----
  observed,         \* the run is a scenario whose ticks and callbacks are counted
  ticks,            \* per layer: number of tick() calls
  lastTick,         \* per layer: the now of its last tick, -1 before the first
  dirtyTicks,       \* number of tick() calls that reported rects on a visible layer
  dirtyIters,       \* number of iterations that collected a dirty rect
  callbacks         \* number of on_present() calls

layerVars == <<nlayers, min_interval, visible, last_hash, surface, ldata>>

compVars == <<front, buffers>>

envVars == <<clock, changes, toggles>>

loopVars == <<spc, should_stop, now, cur, rects, dirty, ci, frame>>

iterVars == <<iterDue, iterTicked, iterChanged, iterShown, iterNextCfr,
              iterFront, iterComposes, iterPresents, iterCallbacks>>

runVars == <<observed, iterations, ticks, lastTick, dirtyTicks, dirtyIters, callbacks>>

schedVars == <<layerVars, compVars, cfr, heap, next_cfr, loopVars, envVars,
               iterVars, runVars>>

(***************************************************************************)
(* More of the layers: their kind, their bounds, and what has happened to  *)
(* each since its last tick                                                *)
(***************************************************************************)
VARIABLES
  kind,             \* per layer: "plain" is Layer itself, whose tick returns [];
                    \* "hash" redraws from its data on every tick (CurrentLayer
                    \* and most others); "state" is ClockLayer, which compares
                    \* _state before it draws
  area,             \* per layer: Layer.bounds has w > 0 and h > 0
  lstate,           \* ClockLayer._state: 0 is None, else the data last drawn
  lnote,            \* per layer, kept when observed: "fresh" before the first
                    \* tick, "quiet" since the last tick, "touched" once its data
                    \* or visibility changed, "reshown" once shown after hidden
  tnote             \* lnote of the layer ticked last, as it was before that tick

kindVars == <<kind, area, lstate, lnote, tnote>>

(***************************************************************************)
(* Layer and Compositor called directly, outside a scheduler               *)
(***************************************************************************)
VARIABLES
  ops,              \* number of direct calls made so far
  returned,         \* contents of the buffers returned by the present() calls
                    \* made since the last compose(), the last two of them
  expected          \* per buffer: what the last compose() into it had to paint,
                    \* the visible layers with an area in ascending z

apiVars == <<ops, returned, expected>>

(***************************************************************************)
(* PageCycler (weatherstream/main.py) and the threads that call activate   *)
(***************************************************************************)
VARIABLES
  pages,            \* PageCycler.pages: per page, the layers of its "layers" list
  pindex,           \* PageCycler._index
  tpc,              \* per calling thread: position in activate
  targ,             \* per calling thread: argument index of its activate call
  tidx,             \* per calling thread: local variable idx, counted from 1
  tlay,             \* per calling thread: next entry of the page's layer list
  tvis,             \* per calling thread: local variable visible
  acts              \* number of activate calls made by the threads so far

pageVars == <<pages, pindex, tpc, targ, tidx, tlay, tvis, acts>>

(***************************************************************************)
(* DataStore (weatherstream/core/datastore.py), its fetch loop thread and  *)
(* the threads that call read().  A dict object is known by a number: 0 is *)
(* the {} of __init__, k > 0 the dict the k-th call of the fetcher led to, *)
(* and a number below 0 a dict that a read() made.  A mapping is the       *)
(* sequence of its values, key by key; <<>> is the empty mapping.          *)
(***************************************************************************)
VARIABLES
  store,            \* self._data: the dict object it refers to
  objs,             \* contents of the dict objects 0..MaxFetches
  dlock,            \* holder of self._lock: 0 free, a reader, or Fetcher
  dpc,              \* fetch loop thread: position in loop()
  new_data,         \* loop(): local variable new_data, a dict object
  fetches,          \* calls of self.fetcher made so far
  dstop,            \* self._stop
  djoin,            \* stop(): "none" before the call, "joining" while it is in
                    \* self._t.join(timeout=1.0), "returned" afterwards
  dinterval,        \* self.interval, in clock units
  dwake,            \* when the time.sleep in progress returns
  rpc,              \* per reader thread: position in read()
  robj,             \* per reader thread: the object self._data referred to
  rcopy,            \* per reader thread: the dict that dict(...) is filling
  rresult,          \* per reader thread: what its last read() returned: the
                    \* object, its contents, and the clock at the return (-1
                    \* before the first return)
  reads             \* number of read() calls made so far

dataVars == <<store, objs, dlock, dpc, new_data, fetches, dstop, djoin, dinterval, dwake,
              rpc, robj, rcopy, rresult, reads>>

(***************************************************************************)
(* FFMPEGStreamer._dest: the destination URL and the transport URL made of *)
(* it.  A URL is the sequence of its pieces: the first stands for scheme,  *)
(* "://", host and port, the others are pieces of the query string.        *)
(***************************************************************************)
VARIABLES
  out_url,          \* self.out_url
  dests             \* the URLs _dest returned: for out_url, then for its result

destVars == <<out_url, dests>>

extraVars == <<pageVars, dataVars, destVars>>

otherVars == <<apiVars, extraVars>>

moreVars == <<kindVars, otherVars>>

vars == <<sinkVars, schedVars, moreVars>>

(***************************************************************************)
(* FFMPEGStreamer: helpers                                                 *)
(***************************************************************************)
\* proc.poll() is None: the subprocess has not exited
PollIsNone(p) == procState[p] = "alive"

\* subprocesses launched by this streamer that are alive
AliveProcs == {p \in Procs : procState[p] = "alive"}

\* threading.Thread.is_alive()
IsAlive(w) == wpc[w] \notin {"unborn", "exited"}

\* a queue that lets one entry too many in
QueueFullOffByOne(q) == Len(q) > max_queue

\* queue.Queue.full(), which put_nowait() turns into queue.Full
QueueFull(q) == Len(q) >= max_queue

\* a thread that join(timeout=2.0) can outlast: it sits in os.write on a full
\* pipe, or waits for the lock held by a thread that does
Blocked(w) == \/ wpc[w] = "inwrite"
              \/ wpc[w] = "have" /\ lock # 0

\* the application thread returns from the call in progress; op is the public
\* call that ends when the return reaches the application
Return(op) == /\ apc' = Head(astack)
              /\ astack' = Tail(astack)
              /\ lastOp' = IF Head(astack) = "idle" THEN op ELSE lastOp

\* the application thread calls f and will continue at ret
Call(f, ret) == /\ apc' = f
                /\ astack' = <<ret>> \o astack

\* FFMPEGStreamer.__init__, in the given mode
InitSinkMode(drop) ==
  /\ drop_when_behind = drop
  /\ proc = 0
  /\ procState = [p \in Procs |-> "unborn"]
  /\ stdinOpen = [p \in Procs |-> FALSE]
  /\ launched = 0
  /\ proc_dead = FALSE
  /\ hasQueue = FALSE
  /\ queue = <<>>
  /\ stop_event = FALSE
  /\ writer_thread = 0
  /\ wpc = [w \in Writers |-> "unborn"]
  /\ wpayload = [w \in Writers |-> 0]
  /\ wtarget = [w \in Writers |-> 0]
  /\ lock = 0
  /\ written = <<>>
  /\ apc = "idle"
  /\ astack = <<>>
  /\ aframe = 0
  /\ sent = 0
  /\ sendResult = "none"
  /\ aneed = FALSE
  /\ alaunch = 0
  /\ lastOp = "none"

InitSink == \E drop \in BOOLEAN : InitSinkMode(drop)

(***************************************************************************)
(* The encoder subprocess exits on its own (crash, output closed, or end   *)
(* of input after its stdin was closed).                                   *)
(***************************************************************************)
ProcExit(p) ==
  /\ procState[p] = "alive"
  /\ procState' = [procState EXCEPT ![p] = "dead"]
  /\ UNCHANGED <<schedVars, moreVars, drop_when_behind, proc, stdinOpen, launched, proc_dead, queueVars,
                 writerVars, sendVars, written, apc, astack, alaunch, lastOp>>

(***************************************************************************)
(* The application thread picks its next public call.                      *)
(***************************************************************************)
CallStart ==
  /\ apc = "idle"
  /\ Call("start_check", "idle")
  /\ alaunch' = 0
  /\ UNCHANGED <<schedVars, moreVars, drop_when_behind, procVars, queueVars, writerVars, sendVars,
                 written, lastOp>>

CallSend ==
  /\ apc = "idle"
  /\ sent < MaxFrames
  /\ sent' = sent + 1
  /\ aframe' = sent + 1
  /\ aneed' = (proc # 0 /\ ~PollIsNone(proc))
  /\ alaunch' = 0
  /\ sendResult' = "none"
  /\ Call("send_check", "idle")
  /\ UNCHANGED <<schedVars, moreVars, drop_when_behind, procVars, queueVars, writerVars, written, lastOp>>

CallStop ==
  /\ apc = "idle"
  /\ Call("stop_signal", "idle")
  /\ alaunch' = 0
  /\ UNCHANGED <<schedVars, moreVars, drop_when_behind, procVars, queueVars, writerVars, sendVars,
                 written, lastOp>>

(***************************************************************************)
(* start()                                                                 *)
(***************************************************************************)
\* a start() that launches without looking at the subprocess it has
StartNeverReturnsEarly == FALSE

\* if self.proc and self.proc.poll() is None: return
StartReturnsEarly == proc # 0 /\ PollIsNone(proc)

StartCheck ==
  /\ apc = "start_check"
  /\ IF StartReturnsEarly
       THEN Return("start")
       ELSE apc' = "start_popen" /\ UNCHANGED <<astack, lastOp>>
  /\ UNCHANGED <<schedVars, moreVars, drop_when_behind, procVars, queueVars, writerVars, sendVars,
                 written, alaunch>>

\* with self._proc_lock: self.proc = subprocess.Popen(...); self._proc_dead = False
StartPopen ==
  /\ apc = "start_popen"
  /\ lock = 0
  /\ launched < MaxLaunch
  /\ launched' = launched + 1
  /\ proc' = launched + 1
  /\ procState' = [procState EXCEPT ![launched + 1] = "alive"]
  /\ stdinOpen' = [stdinOpen EXCEPT ![launched + 1] = TRUE]
  /\ proc_dead' = FALSE
  /\ alaunch' = alaunch + 1
  /\ IF drop_when_behind
       THEN apc' = "start_writer" /\ UNCHANGED <<astack, lastOp>>
       ELSE Return("start")
  /\ UNCHANGED <<schedVars, moreVars, drop_when_behind, queueVars, writerVars, sendVars, written>>

\* the queue and the writer thread are created when missing
StartWriter ==
  /\ apc = "start_writer"
  /\ hasQueue' = TRUE
  /\ IF writer_thread = 0 \/ ~IsAlive(writer_thread)
       THEN /\ \E w \in Writers :
                 /\ wpc[w] = "unborn"
                 /\ \A v \in Writers : v < w => wpc[v] # "unborn"
                 /\ wpc' = [wpc EXCEPT ![w] = "top"]
                 /\ writer_thread' = w
            /\ stop_event' = FALSE
       ELSE UNCHANGED <<wpc, writer_thread, stop_event>>
  /\ Return("start")
  /\ UNCHANGED <<schedVars, moreVars, drop_when_behind, procVars, queue, wpayload, wtarget, lock,
                 sendVars, written, alaunch>>

(***************************************************************************)
(* send(frame)                                                             *)
(***************************************************************************)
\* if self.proc is None or self.proc.poll() is not None or self._proc_dead
SendNeedsStart == proc = 0 \/ ~PollIsNone(proc) \/ proc_dead

SendCheck ==
  /\ apc = "send_check"
  /\ IF SendNeedsStart
       THEN Call("start_check", "send_put")
       ELSE apc' = "send_put" /\ UNCHANGED astack
  /\ UNCHANGED <<schedVars, moreVars, drop_when_behind, procVars, queueVars, writerVars, sendVars,
                 written, alaunch, lastOp>>

\* self._queue.put_nowait(payload): True, or False on queue.Full.  (start()
\* has returned, so self.proc is set and the RuntimeError of line 478 is not
\* raised.)
SendPut ==
  /\ apc = "send_put"
  /\ proc # 0
  /\ drop_when_behind
  /\ hasQueue' = TRUE
  /\ IF QueueFull(queue)
       THEN /\ sendResult' = "False"
            /\ UNCHANGED queue
       ELSE /\ sendResult' = "True"
            /\ queue' = Append(queue, aframe)
  /\ Return("send")
  /\ UNCHANGED <<schedVars, moreVars, drop_when_behind, procVars, writerVars, aframe, sent, aneed,
                 written, alaunch>>

\* synchronous mode: self._write_all(payload) succeeds and send returns True
SendWrite ==
  /\ apc = "send_put"
  /\ proc # 0
  /\ ~drop_when_behind
  /\ PollIsNone(proc)
  /\ written' = Append(written, <<proc, aframe>>)
  /\ sendResult' = "True"
  /\ Return("send")
  /\ UNCHANGED <<schedVars, moreVars, drop_when_behind, procVars, queueVars, writerVars, aframe, sent,
                 aneed, alaunch>>

\* synchronous mode: the write raises BrokenPipeError / ConnectionResetError /
\* OSError(EPIPE): self._restart(), then return False
SendBrokenPipe ==
  /\ apc = "send_put"
  /\ proc # 0
  /\ ~drop_when_behind
  /\ ~PollIsNone(proc)
  /\ Call("stop_signal", "restart_start")
  /\ UNCHANGED <<schedVars, moreVars, drop_when_behind, procVars, queueVars, writerVars, sendVars,
                 written, alaunch, lastOp>>

\* _restart(): after stop() comes start()
RestartStart ==
  /\ apc = "restart_start"
  /\ Call("start_check", "send_false")
  /\ UNCHANGED <<schedVars, moreVars, drop_when_behind, procVars, queueVars, writerVars, sendVars,
                 written, alaunch, lastOp>>

\* a send() that writes the payload again once it has restarted
RestartResendsAlways == TRUE

\* RestartResends: whether send() writes the payload to the replacement after
\* self._restart().  It returns False at once.
RestartResends == FALSE

SendReturnFalse ==
  /\ apc = "send_false"
  /\ written' = IF RestartResends /\ proc # 0
                  THEN Append(written, <<proc, aframe>>)
                  ELSE written
  /\ sendResult' = "False"
  /\ Return("send")
  /\ UNCHANGED <<schedVars, moreVars, drop_when_behind, procVars, queueVars, writerVars, aframe, sent,
                 aneed, alaunch>>

(***************************************************************************)
(* stop()                                                                  *)
(***************************************************************************)
\* self._stop_event.set(); self._queue.put_nowait(None), queue.Full ignored
StopSignal ==
  /\ apc = "stop_signal"
  /\ IF drop_when_behind
       THEN /\ stop_event' = TRUE
            /\ queue' = IF hasQueue /\ ~QueueFull(queue)
                          THEN Append(queue, NoneSentinel)
                          ELSE queue
            /\ apc' = "stop_join"
       ELSE /\ UNCHANGED <<stop_event, queue>>
            /\ apc' = "stop_close"
  /\ UNCHANGED <<schedVars, moreVars, drop_when_behind, procVars, hasQueue, writer_thread, wpc, wpayload,
                 wtarget, lock, sendVars, written, astack, alaunch, lastOp>>

\* self._writer_thread.join(timeout=2.0) returns: the writer has ended
JoinReturns(w) == ~IsAlive(w)

\* ... or the two seconds pass while the writer cannot move
JoinTimesOut(w) == Blocked(w)

StopJoin ==
  /\ apc = "stop_join"
  /\ \/ writer_thread = 0
     \/ /\ writer_thread # 0
        /\ JoinReturns(writer_thread) \/ JoinTimesOut(writer_thread)
  /\ writer_thread' = 0
  /\ apc' = "stop_close"
  /\ UNCHANGED <<schedVars, moreVars, drop_when_behind, procVars, queueVars, stop_event, wpc, wpayload,
                 wtarget, lock, sendVars, written, astack, alaunch, lastOp>>

\* if self.proc: self.proc.stdin.flush(); self.proc.stdin.close()
StopClose ==
  /\ apc = "stop_close"
  /\ IF proc # 0
       THEN stdinOpen' = [stdinOpen EXCEPT ![proc] = FALSE]
       ELSE UNCHANGED stdinOpen
  /\ apc' = "stop_wait"
  /\ UNCHANGED <<schedVars, moreVars, drop_when_behind, proc, procState, launched, proc_dead, queueVars,
                 writerVars, sendVars, written, astack, alaunch, lastOp>>

\* self.proc.wait(timeout=3) returns because the subprocess has exited, or
\* raises TimeoutExpired, which is swallowed; then self.proc = None.
\* WaitEscalates: what stop() does to a subprocess that outlived the wait.
WaitEscalates == FALSE

StopWait ==
  /\ apc = "stop_wait"
  /\ procState' = IF proc # 0 /\ WaitEscalates
                    THEN [procState EXCEPT ![proc] = "dead"]
                    ELSE procState
  /\ proc' = 0
  /\ Return("stop")
  /\ UNCHANGED <<schedVars, moreVars, drop_when_behind, stdinOpen, launched, proc_dead, queueVars,
                 writerVars, sendVars, written, alaunch>>

(***************************************************************************)
(* _writer_loop(), run by each writer thread                               *)
(***************************************************************************)
\* while not self._stop_event.is_set(): if self._queue is None: break
WriterTop(w) ==
  /\ wpc[w] = "top"
  /\ wpc' = [wpc EXCEPT ![w] = IF stop_event \/ ~hasQueue THEN "exited" ELSE "get"]
  /\ UNCHANGED <<schedVars, moreVars, drop_when_behind, procVars, queueVars, stop_event, writer_thread,
                 wpayload, wtarget, lock, sendVars, written, apc, astack, alaunch,
                 lastOp>>

\* payload = self._queue.get(timeout=0.25); queue.Empty: continue; None: break
WriterGet(w) ==
  /\ wpc[w] = "get"
  /\ IF queue = <<>>
       THEN /\ wpc' = [wpc EXCEPT ![w] = "top"]
            /\ UNCHANGED <<queue, wpayload>>
       ELSE /\ queue' = Tail(queue)
            /\ IF Head(queue) = NoneSentinel
                 THEN /\ wpc' = [wpc EXCEPT ![w] = "exited"]
                      /\ UNCHANGED wpayload
                 ELSE /\ wpc' = [wpc EXCEPT ![w] = "have"]
                      /\ wpayload' = [wpayload EXCEPT ![w] = Head(queue)]
  /\ UNCHANGED <<schedVars, moreVars, drop_when_behind, procVars, hasQueue, stop_event, writer_thread,
                 wtarget, lock, sendVars, written, apc, astack, alaunch, lastOp>>

\* with self._proc_lock: proc = self.proc; if proc is None or proc.poll() is not
\* None: self._proc_dead = True; continue
WriterLock(w) ==
  /\ wpc[w] = "have"
  /\ lock = 0
  /\ IF proc = 0 \/ ~PollIsNone(proc)
       THEN /\ proc_dead' = TRUE
            /\ wpc' = [wpc EXCEPT ![w] = "top"]
            /\ wpayload' = [wpayload EXCEPT ![w] = 0]
            /\ UNCHANGED lock
       ELSE /\ lock' = w
            /\ wpc' = [wpc EXCEPT ![w] = "locked"]
            /\ UNCHANGED <<proc_dead, wpayload>>
  /\ UNCHANGED <<schedVars, moreVars, drop_when_behind, proc, procState, stdinOpen, launched, queueVars,
                 stop_event, writer_thread, wtarget, sendVars, written,
                 apc, astack, alaunch, lastOp>>

\* _write_all reads self.proc again and takes proc.stdin.fileno(): RuntimeError
\* when stop() has set self.proc = None, ValueError when stop() has closed the
\* stdin; neither is caught by the loop, and the thread ends
WriterBegin(w) ==
  /\ wpc[w] = "locked"
  /\ IF proc = 0 \/ ~stdinOpen[proc]
       THEN /\ wpc' = [wpc EXCEPT ![w] = "exited"]
            /\ lock' = 0
            /\ wpayload' = [wpayload EXCEPT ![w] = 0]
            /\ UNCHANGED wtarget
       ELSE /\ wpc' = [wpc EXCEPT ![w] = "inwrite"]
            /\ wtarget' = [wtarget EXCEPT ![w] = proc]
            /\ UNCHANGED <<lock, wpayload>>
  /\ UNCHANGED <<schedVars, moreVars, drop_when_behind, procVars, queueVars, stop_event, writer_thread,
                 sendVars, written, apc, astack, alaunch, lastOp>>

\* os.write(fd, view) returns: the frame is in the pipe of the subprocess
WriterEnd(w) ==
  /\ wpc[w] = "inwrite"
  /\ PollIsNone(wtarget[w])
  /\ written' = Append(written, <<wtarget[w], wpayload[w]>>)
  /\ lock' = 0
  /\ wpc' = [wpc EXCEPT ![w] = "top"]
  /\ wpayload' = [wpayload EXCEPT ![w] = 0]
  /\ wtarget' = [wtarget EXCEPT ![w] = 0]
  /\ UNCHANGED <<schedVars, moreVars, drop_when_behind, procVars, queueVars, stop_event, writer_thread,
                 sendVars, apc, astack, alaunch, lastOp>>

\* os.write raises BrokenPipeError / OSError: the with block releases the lock
WriterBroken(w) ==
  /\ wpc[w] = "inwrite"
  /\ ~PollIsNone(wtarget[w])
  /\ lock' = 0
  /\ wpc' = [wpc EXCEPT ![w] = "failed"]
  /\ wpayload' = [wpayload EXCEPT ![w] = 0]
  /\ wtarget' = [wtarget EXCEPT ![w] = 0]
  /\ UNCHANGED <<schedVars, moreVars, drop_when_behind, procVars, queueVars, stop_event, writer_thread,
                 sendVars, written, apc, astack, alaunch, lastOp>>

\* except (BrokenPipeError, ConnectionResetError, OSError): self._proc_dead = True
WriterFail(w) ==
  /\ wpc[w] = "failed"
  /\ proc_dead' = TRUE
  /\ wpc' = [wpc EXCEPT ![w] = "top"]
  /\ UNCHANGED <<schedVars, moreVars, drop_when_behind, proc, procState, stdinOpen, launched, queueVars,
                 stop_event, writer_thread, wpayload, wtarget, lock, sendVars,
                 written, apc, astack, alaunch, lastOp>>


(***************************************************************************)
(* Layer, Compositor, Scheduler: helpers                                   *)
(***************************************************************************)
Layers == 1..nlayers

Pictures == 1..MaxContent

\* float("inf"), the next_cfr of a scheduler without a fixed rate
Infinity == 0 - 1

IsInf(t) == t < 0

\* min(a, b) where b may be infinite
MinTime(a, b) == IF IsInf(b) THEN a ELSE IF a <= b THEN a ELSE b

\* 1 / self.cfr, in clock units
PeriodTwice(hz) == 2 * (TicksPerSec \div hz)

\* 1 / self.cfr, in clock units
Period(hz) == TicksPerSec \div hz

\* hash(self.surface.tobytes()): never None, different for different pictures
Hash(pic) == pic + 1

\* a comparison that looks at the deadlines only
EntryLessByDeadline(a, b) == a[1] < b[1]

\* tuple comparison of two heap entries (deadline, index)
EntryLess(a, b) == a[1] < b[1] \/ (a[1] = b[1] /\ a[2] < b[2])

\* heapq.heappush(h, e): the heap is kept as the sorted sequence of its entries
HeapPush(h, e) ==
  LET k == Cardinality({n \in 1..Len(h) : ~EntryLess(e, h[n])})
  IN  SubSeq(h, 1, k) \o <<e>> \o SubSeq(h, k + 1, Len(h))

\* a re-push that loses the entry
RepushLost(h, t, i) == h

\* a re-push that waits two intervals
RepushLate(h, t, i) == HeapPush(h, <<t + 2 * min_interval[i], i>>)

\* heapq.heappush(self.heap, (now + L.min_interval, idx)) after a tick at t
Repush(h, t, i) == HeapPush(h, <<t + min_interval[i], i>>)

\* the heap Scheduler.__init__ builds: every layer due at once
RECURSIVE InitialHeap(_, _)
InitialHeap(t, n) == IF n = 0 THEN <<>> ELSE HeapPush(InitialHeap(t, n - 1), <<t, n>>)

\* min(self.heap[0][0], self.next_cfr)
WakeAt == MinTime(heap[1][1], next_cfr)

\* layers with an entry whose deadline is not after t
Due(h, t) == {h[n][2] : n \in {m \in 1..Len(h) : h[m][1] <= t}}

\* a compositor whose back buffer is its front buffer
OtherSame(b) == b

\* the buffer that is not the front one
Other(b) == IF b = "A" THEN "B" ELSE "A"

\* a scheduler that keeps what a hidden layer reports
CollectsAlways(i) == TRUE

\* if getattr(L, "visible", True): the rects of L are kept
Collects(i) == visible[i]

\* a loop that presents on every pass once a rate is set
MustCfrAlways == cfr # 0

\* must_cfr = self.cfr and now >= self.next_cfr
MustCfr == cfr # 0 /\ now >= next_cfr

\* a hash test that takes every surface for a changed one
HashDiffersAlways(h, last) == TRUE

\* if h != self._last_hash
HashDiffers(h, last) == h # last

\* set_visible: the flag changes to True, so self._last_hash = None
ForgetsHash(i, flag) == flag /\ flag # visible[i]

\* whether tick() gets as far as drawing: Layer.tick returns [] at once, and
\* ClockLayer.tick returns [] when its state is the one it drew last
Draws(i) ==
  CASE kind[i] = "plain" -> FALSE
    [] kind[i] = "state" -> ldata[i] # lstate[i]
    [] OTHER -> TRUE

\* L.tick(now): the layer redraws its surface from its data and returns
\* self._mark_all_dirty_if_changed()
Tick(i) ==
  /\ cur' = i
  /\ surface' = IF Draws(i) THEN [surface EXCEPT ![i] = ldata[i]] ELSE surface
  /\ lstate' = IF Draws(i) /\ kind[i] = "state"
                 THEN [lstate EXCEPT ![i] = ldata[i]] ELSE lstate
  /\ last_hash' = IF Draws(i) THEN [last_hash EXCEPT ![i] = Hash(ldata[i])]
                              ELSE last_hash
  /\ rects' = IF Draws(i) /\ HashDiffers(Hash(ldata[i]), last_hash[i]) THEN 1 ELSE 0
  /\ tnote' = lnote[i]
  /\ lnote' = IF observed THEN [lnote EXCEPT ![i] = "quiet"] ELSE lnote

\* Layer.set_visible(flag)
set_visible(i, flag) ==
  /\ visible' = [visible EXCEPT ![i] = flag]
  /\ last_hash' = IF ForgetsHash(i, flag) THEN [last_hash EXCEPT ![i] = 0]
                                          ELSE last_hash
  /\ lnote' = IF observed /\ flag # visible[i]
                THEN [lnote EXCEPT ![i] = IF flag THEN "reshown" ELSE "touched"]
                ELSE lnote

\* the threads that can call activate: thread 1 is the page-cycler's timer
\* thread, the others are callers of a go-to-page trigger
Callers == 1..MaxCallers

\* a PageCycler with the given pages, as PageCycler.__init__ leaves it, and
\* its callers before any call
InitCycler(pp) ==
  /\ pages = pp
  /\ pindex = 0
  /\ tpc = [t \in Callers |-> "idle"]
  /\ targ = [t \in Callers |-> 0]
  /\ tidx = [t \in Callers |-> 0]
  /\ tlay = [t \in Callers |-> 0]
  /\ tvis = [t \in Callers |-> FALSE]
  /\ acts = 0

\* the threads that call read()
Readers == 1..MaxReaders

\* the fetch loop thread, as a holder of the lock
Fetcher == MaxReaders + 1

\* the dict object a read() of reader r makes
Fresh(r) == 0 - r

\* a read() that hands out the stored object itself
CopyIdShared(r, obj) == obj

\* dict(self._data): a new dict object
CopyId(r, obj) == Fresh(r)

\* a sleep of half the interval
SleepsUntilHalf(t) == t + dinterval \div 2

\* time.sleep(self.interval), begun at t, returns at
SleepsUntil(t) == t + dinterval

\* DataStore.__init__ with the given interval; started: start() was called
\* and the loop thread stands before its first test of self._stop
InitStore(iv, started) ==
  /\ store = 0
  /\ objs = [k \in 0..MaxFetches |-> <<>>]
  /\ dlock = 0
  /\ dpc = IF started THEN "test" ELSE "new"
  /\ new_data = 0
  /\ fetches = 0
  /\ dstop = FALSE
  /\ djoin = "none"
  /\ dinterval = iv
  /\ dwake = 0
  /\ rpc = [r \in Readers |-> "idle"]
  /\ robj = [r \in Readers |-> 0]
  /\ rcopy = [r \in Readers |-> <<>>]
  /\ rresult = [r \in Readers |-> [id |-> Fresh(r), map |-> <<>>, at |-> -1]]
  /\ reads = 0

\* a streamer with the given destination, before any _dest call
InitDest(u) ==
  /\ out_url = u
  /\ dests = <<>>

\* the objects of the other components in a run that does not use them: a
\* cycler without pages, a store that was not started, a destination
InitExtra == InitCycler(<<>>) /\ InitStore(1, FALSE) /\ InitDest(<<"udp">>)

\* the kinds, bounds and notes of n layers of one kind, all with an area
InitNotes(n, k) ==
  /\ kind = [i \in 1..n |-> k]
  /\ area = [i \in 1..n |-> TRUE]
  /\ lstate = [i \in 1..n |-> 0]
  /\ lnote = [i \in 1..n |-> "fresh"]
  /\ tnote = "fresh"
  /\ ops = 0
  /\ returned = <<>>
  /\ expected = [b \in {"A", "B"} |-> <<>>]

\* n layers of one kind in a run without the other components
InitKinds(n, k) == InitNotes(n, k) /\ InitExtra

\* compose(), for one layer of its list: a hidden layer and one without an
\* area are skipped; the others are pasted through their own alpha, so that a
\* surface nothing was drawn on leaves the buffer as it is
Paste(buf, i) ==
  IF visible[i] /\ area[i] /\ surface[i] # 0
    THEN Append(buf, <<i, surface[i]>>)
    ELSE buf

\* a counter of the run's history moves on
Count(n) == IF observed THEN n + 1 ELSE n

\* n copies of x
Copies(x, n) == [k \in 1..n |-> x]

\* Scheduler.__init__ and Compositor.__init__, at clock 0, for n layers with the
\* given intervals, rate and visibility
InitLoopShown(n, intervals, hz, shown) ==
  /\ nlayers = n
  /\ min_interval = intervals
  /\ visible = shown
  /\ last_hash = [i \in 1..n |-> 0]
  /\ surface = [i \in 1..n |-> 0]
  /\ ldata = [i \in 1..n |-> 1]
  /\ front = "A"
  /\ buffers = [b \in {"A", "B"} |-> <<>>]
  /\ cfr = hz
  /\ clock = 0
  /\ changes = 0
  /\ toggles = 0
  /\ heap = InitialHeap(0, n)
  /\ next_cfr = IF hz # 0 THEN 0 + Period(hz) ELSE Infinity
  /\ spc = "new"
  /\ should_stop = FALSE
  /\ now = 0
  /\ cur = 0
  /\ rects = 0
  /\ dirty = <<>>
  /\ ci = 0
  /\ frame = "none"
  /\ iterDue = {}
  /\ iterTicked = <<>>
  /\ iterChanged = {}
  /\ iterShown = {}
  /\ iterNextCfr = next_cfr
  /\ iterFront = "A"
  /\ iterComposes = 0
  /\ iterPresents = 0
  /\ iterCallbacks = 0
  /\ iterations = 0
  /\ ticks = [i \in 1..n |-> 0]
  /\ lastTick = [i \in 1..n |-> -1]
  /\ dirtyTicks = 0
  /\ dirtyIters = 0
  /\ callbacks = 0

\* the same for layers as Layer.__init__ leaves them: visible
InitLoop(n, intervals, hz) == InitLoopShown(n, intervals, hz, [i \in 1..n |-> TRUE])

\* an interval that is taken as it is asked for
ClampNone(r) == r

\* self.min_interval = max(0.001, float(min_interval)): an interval is never
\* below the smallest positive one, which is one clock unit here
Clamp(r) == IF r < 1 THEN 1 ELSE r

\* the scheduler of the model: layer i is due every i clock units; no fixed
\* rate, or 5 Hz
InitSched ==
  /\ \E hz \in {0, 5} : InitLoop(NumLayers, [i \in 1..NumLayers |-> i], hz)
  /\ observed = FALSE

(***************************************************************************)
(* The surroundings of the scheduler thread                                *)
(***************************************************************************)
\* the wall clock moves on.  The loop reads it at its head and after its
\* sleep only, so a move at any other position is the same move made on
\* arrival at the head.
ClockAdvance ==
  /\ spc \in {"new", "top", "sleep"}
  /\ clock < MaxTime
  /\ clock' = clock + 1
  /\ UNCHANGED <<changes, toggles>>
  /\ UNCHANGED <<sinkVars, moreVars, layerVars, compVars, cfr, heap, next_cfr, loopVars,
                 iterVars, runVars>>

\* the data a layer draws from changes (a DataStore refresh, the time of day).
\* Only the layer's own tick reads it, so a change during a pass is the same
\* change made before the pass or after it.
DataChange(i, pic) ==
  /\ spc \in {"new", "top", "sleep"}
  /\ pic # ldata[i]
  /\ changes < MaxChanges
  /\ changes' = changes + 1
  /\ ldata' = [ldata EXCEPT ![i] = pic]
  /\ lnote' = IF observed /\ lnote[i] = "quiet"
                THEN [lnote EXCEPT ![i] = "touched"] ELSE lnote
  /\ UNCHANGED <<sinkVars, otherVars, kind, area, lstate, tnote, nlayers, min_interval, visible, last_hash, surface, compVars,
                 cfr, heap, next_cfr, loopVars, clock, toggles, iterVars, runVars>>

\* Layer.set_visible(flag), called by the page cycler's thread
SetVisible(i, flag) ==
  /\ flag # visible[i]
  /\ toggles < MaxToggles
  /\ toggles' = toggles + 1
  /\ set_visible(i, flag)
  /\ UNCHANGED <<sinkVars, otherVars, kind, area, lstate, tnote, nlayers, min_interval, surface, ldata, compVars, cfr, heap,
                 next_cfr, loopVars, clock, changes, iterVars, runVars>>

(***************************************************************************)
(* Scheduler.run_forever(compositor, on_present)                           *)
(***************************************************************************)
\* the call itself: the method takes no should_stop parameter, so a call
\* that passes one, as main() does, ends at once with TypeError
RunForeverCall(given) ==
  /\ spc = "new"
  /\ should_stop' = given
  /\ spc' = IF given THEN "raised" ELSE "top"
  /\ UNCHANGED <<sinkVars, moreVars, layerVars, compVars, cfr, heap, next_cfr, now, cur,
                 rects, dirty, ci, frame, envVars, iterVars, runVars>>

\* what a pass of the loop starts from
BeginIteration(t) ==
  /\ dirty' = <<>>
  /\ iterDue' = Due(heap, t)
  /\ iterTicked' = <<>>
  /\ iterChanged' = {}
  /\ iterShown' = {}
  /\ iterNextCfr' = next_cfr
  /\ iterFront' = front
  /\ iterComposes' = 0
  /\ iterPresents' = 0
  /\ iterCallbacks' = 0

\* now = time.time(); wake_at = min(...); if now < wake_at: sleep
LoopTop ==
  /\ spc = "top"
  /\ now' = clock
  /\ spc' = IF clock < WakeAt THEN "sleep" ELSE "drain"
  /\ BeginIteration(clock)
  /\ UNCHANGED <<sinkVars, moreVars, layerVars, compVars, cfr, heap, next_cfr, should_stop,
                 cur, rects, ci, frame, envVars, runVars>>

\* time.sleep(wake_at - now) returns, at wake_at or later; now = time.time()
Sleep ==
  /\ spc = "sleep"
  /\ clock >= WakeAt
  /\ now' = clock
  /\ spc' = "drain"
  /\ BeginIteration(clock)
  /\ UNCHANGED <<sinkVars, moreVars, layerVars, compVars, cfr, heap, next_cfr, should_stop,
                 cur, rects, ci, frame, envVars, runVars>>

\* the same under a simulated clock, which time.sleep(d) moves on by d; the
\* scenario ends when the clock would reach the horizon
SleepSimulated(horizon) ==
  /\ spc = "sleep"
  /\ WakeAt < horizon
  /\ clock' = clock + (WakeAt - now)
  /\ now' = clock'
  /\ spc' = "drain"
  /\ BeginIteration(clock')
  /\ UNCHANGED <<sinkVars, moreVars, layerVars, compVars, cfr, heap, next_cfr, should_stop,
                 cur, rects, ci, frame, changes, toggles, runVars>>

\* while self.heap and self.heap[0][0] <= now: pop the entry and tick its
\* layer.  The tick redraws the surface from the layer's data and returns
\* Layer._mark_all_dirty_if_changed().
DrainTick ==
  /\ spc = "drain"
  /\ heap # <<>> /\ heap[1][1] <= now
  /\ LET i == heap[1][2]
     IN  /\ heap' = Tail(heap)
         /\ Tick(i)
         /\ iterTicked' = Append(iterTicked, i)
         /\ iterChanged' = IF rects' > 0 THEN iterChanged \cup {i} ELSE iterChanged
         /\ ticks' = [ticks EXCEPT ![i] = Count(@)]
         /\ lastTick' = IF observed THEN [lastTick EXCEPT ![i] = now] ELSE lastTick
  /\ spc' = "collect"
  /\ UNCHANGED <<sinkVars, otherVars, kind, area, nlayers, min_interval, visible, ldata, compVars, cfr, next_cfr,
                 should_stop, now, dirty, ci, frame, envVars, iterDue, iterShown,
                 iterNextCfr, iterFront, iterComposes, iterPresents, iterCallbacks,
                 observed, iterations, dirtyTicks, dirtyIters, callbacks>>

\* L.tick(now) raises while it draws (a datum that cannot be formatted, an
\* error of the drawing library).  The tick methods catch nothing around
\* their drawing and run_forever catches nothing around L.tick, so the
\* exception ends run_forever; the entry popped for the layer is not pushed
\* back.
TickRaises ==
  /\ spc = "drain"
  /\ heap # <<>> /\ heap[1][1] <= now
  /\ kind[heap[1][2]] # "plain"
  /\ heap' = Tail(heap)
  /\ cur' = heap[1][2]
  /\ spc' = "raised"
  /\ UNCHANGED <<sinkVars, moreVars, layerVars, compVars, cfr, next_cfr, should_stop,
                 now, rects, dirty, ci, frame, envVars, iterVars, runVars>>

\* if L.visible: dirty gets the rects; heappush(self.heap, (now + L.min_interval, idx))
Collect ==
  /\ spc = "collect"
  /\ dirty' = IF Collects(cur) THEN dirty \o Copies(cur, rects) ELSE dirty
  /\ iterShown' = IF visible[cur] THEN iterShown \cup {cur} ELSE iterShown
  /\ dirtyTicks' = IF visible[cur] /\ rects > 0 THEN Count(dirtyTicks) ELSE dirtyTicks
  /\ heap' = Repush(heap, now, cur)
  /\ spc' = "drain"
  /\ UNCHANGED <<sinkVars, moreVars, layerVars, compVars, cfr, next_cfr, should_stop, now,
                 cur, rects, ci, frame, envVars, iterDue, iterTicked, iterChanged,
                 iterNextCfr, iterFront, iterComposes, iterPresents, iterCallbacks,
                 observed, iterations, ticks, lastTick, dirtyIters, callbacks>>

\* the drain is over: if dirty or must_cfr ... else the pass ends
Decide ==
  /\ spc = "drain"
  /\ ~(heap # <<>> /\ heap[1][1] <= now)
  /\ IF dirty # <<>>
       THEN \* compositor.compose(self.layers) begins: the back buffer is cleared
            /\ spc' = "compose"
            /\ ci' = 1
            /\ buffers' = [buffers EXCEPT ![Other(front)] = <<>>]
            /\ iterComposes' = iterComposes + 1
            /\ dirtyIters' = Count(dirtyIters)
            /\ UNCHANGED <<frame, iterations>>
       ELSE IF MustCfr
         THEN \* frame = compositor.front
              /\ spc' = "callback"
              /\ frame' = front
              /\ UNCHANGED <<ci, buffers, iterComposes, dirtyIters, iterations>>
         ELSE /\ spc' = "top"
              /\ iterations' = Count(iterations)
              /\ UNCHANGED <<ci, buffers, iterComposes, dirtyIters, frame>>
  /\ UNCHANGED <<sinkVars, moreVars, layerVars, front, cfr, heap, next_cfr, should_stop, now,
                 cur, rects, dirty, envVars, iterDue, iterTicked, iterChanged,
                 iterShown, iterNextCfr, iterFront, iterPresents, iterCallbacks,
                 observed, ticks, lastTick, dirtyTicks, callbacks>>

\* Compositor.compose, one pass of its for loop: a visible layer is pasted
ComposeLayer ==
  /\ spc = "compose"
  /\ ci <= nlayers
  /\ buffers' = [buffers EXCEPT ![Other(front)] = Paste(@, ci)]
  /\ ci' = ci + 1
  /\ UNCHANGED <<sinkVars, moreVars, layerVars, front, cfr, heap, next_cfr, spc, should_stop,
                 now, cur, rects, dirty, frame, envVars, iterVars, runVars>>

\* Compositor.present(): the buffers are swapped, the new front is the frame
Present ==
  /\ spc = "compose"
  /\ ci > nlayers
  /\ front' = Other(front)
  /\ frame' = Other(front)
  /\ iterPresents' = iterPresents + 1
  /\ spc' = "callback"
  /\ UNCHANGED <<sinkVars, moreVars, layerVars, buffers, cfr, heap, next_cfr, should_stop,
                 now, cur, rects, dirty, ci, envVars, iterDue, iterTicked, iterChanged,
                 iterShown, iterNextCfr, iterFront, iterComposes, iterCallbacks,
                 runVars>>

\* on_present(frame); if self.cfr: self.next_cfr = now + 1 / self.cfr
Callback ==
  /\ spc = "callback"
  /\ iterCallbacks' = iterCallbacks + 1
  /\ callbacks' = Count(callbacks)
  /\ next_cfr' = IF cfr # 0 THEN now + Period(cfr) ELSE next_cfr
  /\ spc' = "top"
  /\ iterations' = Count(iterations)
  /\ UNCHANGED <<sinkVars, moreVars, layerVars, compVars, cfr, heap, should_stop, now, cur,
                 rects, dirty, ci, frame, envVars, iterDue, iterTicked, iterChanged,
                 iterShown, iterNextCfr, iterFront, iterComposes, iterPresents,
                 observed, ticks, lastTick, dirtyTicks, dirtyIters>>

(***************************************************************************)
(* Direct calls: tick, set_visible, compose(layers), present()             *)
(***************************************************************************)
\* L.tick(now), called directly
LayerTick(i) ==
  /\ ops < MaxOps
  /\ ops' = ops + 1
  /\ Tick(i)
  /\ UNCHANGED <<sinkVars, extraVars, kind, area, returned, expected, nlayers, min_interval,
                 visible, ldata, compVars, cfr, heap, next_cfr, spc, should_stop,
                 now, dirty, ci, frame, envVars, iterVars, runVars>>

\* L.set_visible(flag), called directly; a call that changes nothing included
LayerSetVisible(i, flag) ==
  /\ ops < MaxOps
  /\ ops' = ops + 1
  /\ set_visible(i, flag)
  /\ UNCHANGED <<sinkVars, extraVars, kind, area, lstate, tnote, returned, expected, nlayers,
                 min_interval, surface, ldata, compVars, cfr, heap, next_cfr,
                 loopVars, envVars, iterVars, runVars>>

\* what compose() leaves in the cleared buffer for the layers of the list,
\* first to last
RECURSIVE Pasted(_)
Pasted(order) ==
  IF order = <<>> THEN <<>>
  ELSE Paste(Pasted(SubSeq(order, 1, Len(order) - 1)), order[Len(order)])

\* the layers in ascending z: the order of Scheduler.layers
RECURSIVE Ascending(_)
Ascending(n) == IF n = 0 THEN <<>> ELSE Append(Ascending(n - 1), n)

\* the lists compose() can be given: the layers in any order
Orders ==
  {o \in [1..nlayers -> Layers] : \A a, b \in 1..nlayers : a # b => o[a] # o[b]}

\* compositor.compose(order), called directly
Compose(order) ==
  /\ ops < MaxOps
  /\ ops' = ops + 1
  /\ buffers' = [buffers EXCEPT ![Other(front)] = Pasted(order)]
  /\ expected' = [expected EXCEPT ![Other(front)] = Pasted(Ascending(nlayers))]
  /\ returned' = <<>>
  /\ UNCHANGED <<sinkVars, extraVars, kindVars, layerVars, front, cfr, heap, next_cfr,
                 loopVars, envVars, iterVars, runVars>>

\* compositor.present(), called directly
PresentCall ==
  /\ ops < MaxOps
  /\ ops' = ops + 1
  /\ front' = Other(front)
  /\ frame' = Other(front)
  /\ returned' = IF returned = <<>> THEN <<buffers[Other(front)]>>
                  ELSE <<returned[Len(returned)], buffers[Other(front)]>>
  /\ UNCHANGED <<sinkVars, extraVars, kindVars, expected, layerVars, buffers, cfr, heap, next_cfr,
                 spc, should_stop, now, cur, rects, dirty, ci, envVars, iterVars,
                 runVars>>

\* layers of both drawing kinds, handled directly
InitLayer ==
  /\ InitSinkMode(TRUE)
  /\ InitLoop(NumLayers, [i \in 1..NumLayers |-> i], 0)
  /\ \E k \in {"hash", "state"} : InitKinds(NumLayers, k)
  /\ observed = TRUE

NextLayer ==
  \/ \E i \in Layers : LayerTick(i)
  \/ \E i \in Layers, flag \in BOOLEAN : LayerSetVisible(i, flag)
  \/ \E i \in Layers, pic \in Pictures : DataChange(i, pic)

SpecLayer == InitLayer /\ [][NextLayer]_vars

\* a compositor and its layers handled directly; at most one layer has bounds
\* without an area
InitComp ==
  /\ InitSinkMode(TRUE)
  /\ InitLoop(NumLayers, [i \in 1..NumLayers |-> i], 0)
  /\ kind = [i \in 1..NumLayers |-> "hash"]
  /\ \E z \in 0..NumLayers : area = [i \in 1..NumLayers |-> i # z]
  /\ lstate = [i \in 1..NumLayers |-> 0]
  /\ lnote = [i \in 1..NumLayers |-> "fresh"]
  /\ tnote = "fresh"
  /\ ops = 0
  /\ returned = <<>>
  /\ expected = [b \in {"A", "B"} |-> <<>>]
  /\ InitExtra
  /\ observed = FALSE

NextComp ==
  \/ \E i \in Layers : LayerTick(i)
  \/ \E i \in Layers, flag \in BOOLEAN : LayerSetVisible(i, flag)
  \/ \E i \in Layers, pic \in Pictures : DataChange(i, pic)
  \/ \E order \in Orders : Compose(order)
  \/ PresentCall

SpecComp == InitComp /\ [][NextComp]_vars

(***************************************************************************)
(* PageCycler.activate(index), one step per statement, and its callers     *)
(***************************************************************************)
\* the layers of page p
PageLayers(pp, p) == {pp[p][k] : k \in 1..Len(pp[p])}

\* every layer of page p is visible and every layer of the other pages hidden
OnlyPageShown(p) ==
  \A q \in 1..Len(pages) : \A i \in PageLayers(pages, q) : visible[i] = (q = p)

\* visibility after _build_layers: add_page hides the layers of every page,
\* cycler.activate(0) shows those of the first; other layers stay visible
BuiltShown(pp, n) ==
  [i \in 1..n |-> \A p \in 2..Len(pp) : i \notin PageLayers(pp, p)]

\* PageCycler._loop: the wait ran out without a stop, there are pages, and
\* self._index + 1 is evaluated for the call of activate
TimerFire ==
  /\ tpc[1] = "idle"
  /\ pages # <<>>
  /\ acts < MaxActivations
  /\ acts' = acts + 1
  /\ targ' = [targ EXCEPT ![1] = pindex + 1]
  /\ tpc' = [tpc EXCEPT ![1] = "enter"]
  /\ UNCHANGED <<sinkVars, schedVars, kindVars, apiVars, dataVars, destVars, pages, pindex, tidx, tlay, tvis>>

\* a go-to-page trigger: thread t calls activate(index)
GoToPage(t, index) ==
  /\ t # 1
  /\ tpc[t] = "idle"
  /\ acts < MaxActivations
  /\ acts' = acts + 1
  /\ targ' = [targ EXCEPT ![t] = index]
  /\ tpc' = [tpc EXCEPT ![t] = "enter"]
  /\ UNCHANGED <<sinkVars, schedVars, kindVars, apiVars, dataVars, destVars, pages, pindex, tidx, tlay, tvis>>

\* activate: if not self.pages: return; self._index = index % len(self.pages)
ActivateEnter(t) ==
  /\ tpc[t] = "enter"
  /\ IF pages = <<>>
       THEN /\ tpc' = [tpc EXCEPT ![t] = "idle"]
            /\ UNCHANGED <<pindex, tidx>>
       ELSE /\ pindex' = targ[t] % Len(pages)
            /\ tidx' = [tidx EXCEPT ![t] = 1]
            /\ tpc' = [tpc EXCEPT ![t] = "page"]
  /\ UNCHANGED <<sinkVars, schedVars, kindVars, apiVars, dataVars, destVars, pages, targ, tlay, tvis, acts>>

\* activate: the head of the loop over the pages, and
\* visible = idx == self._index with the index as it is at that moment
ActivatePage(t) ==
  /\ tpc[t] = "page"
  /\ IF tidx[t] > Len(pages)
       THEN /\ tpc' = [tpc EXCEPT ![t] = "idle"]
            /\ UNCHANGED <<tvis, tlay>>
       ELSE /\ tvis' = [tvis EXCEPT ![t] = (tidx[t] - 1 = pindex)]
            /\ tlay' = [tlay EXCEPT ![t] = 1]
            /\ tpc' = [tpc EXCEPT ![t] = "layer"]
  /\ UNCHANGED <<sinkVars, schedVars, kindVars, apiVars, dataVars, destVars, pages, pindex, targ, tidx, acts>>

\* activate: the loop over the page's layers, layer.set_visible(visible)
ActivateLayer(t) ==
  /\ tpc[t] = "layer"
  /\ IF tlay[t] > Len(pages[tidx[t]])
       THEN /\ tidx' = [tidx EXCEPT ![t] = @ + 1]
            /\ tpc' = [tpc EXCEPT ![t] = "page"]
            /\ UNCHANGED <<visible, last_hash, lnote, tlay>>
       ELSE /\ set_visible(pages[tidx[t]][tlay[t]], tvis[t])
            /\ tlay' = [tlay EXCEPT ![t] = @ + 1]
            /\ UNCHANGED <<tidx, tpc>>
  /\ UNCHANGED <<sinkVars, apiVars, kind, area, lstate, tnote, nlayers, min_interval,
                 surface, ldata, compVars, cfr, heap, next_cfr, loopVars, envVars,
                 iterVars, runVars, dataVars, destVars, pages, pindex, targ, tvis, acts>>

\* main(): two pages of one layer each, built and handed to a scheduler, and
\* the page-cycler's timer thread started
InitPages ==
  /\ InitSinkMode(TRUE)
  /\ \E hz \in {0, 5} :
       InitLoopShown(2, <<1, 2>>, hz, BuiltShown(<<<<1>>, <<2>>>>, 2))
  /\ InitNotes(2, "hash")
  /\ InitCycler(<<<<1>>, <<2>>>>)
  /\ InitStore(1, FALSE)
  /\ InitDest(<<"udp">>)
  /\ observed = FALSE

NextPages ==
  \/ ClockAdvance
  \/ \E i \in Layers, pic \in Pictures : DataChange(i, pic)
  \/ RunForeverCall(FALSE)
  \/ LoopTop
  \/ Sleep
  \/ DrainTick
  \/ Collect
  \/ Decide
  \/ ComposeLayer
  \/ Present
  \/ Callback
  \/ TimerFire
  \/ ActivateEnter(1)
  \/ ActivatePage(1)
  \/ ActivateLayer(1)

SpecPages == InitPages /\ [][NextPages]_vars

\* a cycler of two pages, of one layer or of two layers each, after
\* _build_layers, and threads that call activate at will
InitActivate ==
  /\ InitSinkMode(TRUE)
  /\ \E pp \in {<<<<1>>, <<2>>>>, <<<<1, 3>>, <<2, 4>>>>} :
       LET n == 2 * Len(pp[1])
       IN  /\ InitLoopShown(n, [i \in 1..n |-> 1], 0, BuiltShown(pp, n))
           /\ InitNotes(n, "hash")
           /\ InitCycler(pp)
  /\ InitStore(1, FALSE)
  /\ InitDest(<<"udp">>)
  /\ observed = FALSE

NextActivate ==
  \/ TimerFire
  \/ \E t \in Callers, index \in 0..2 : GoToPage(t, index)
  \/ \E t \in Callers : ActivateEnter(t)
  \/ \E t \in Callers : ActivatePage(t)
  \/ \E t \in Callers : ActivateLayer(t)

SpecActivate == InitActivate /\ [][NextActivate]_vars

\* main(): two pages of one layer each and an overlay layer on no page, the
\* scheduler's thread and the page-cycler's timer thread
InitReveal ==
  /\ InitSinkMode(TRUE)
  /\ \E hz \in {0, 5} :
       InitLoopShown(3, <<1, 1, 2>>, hz, BuiltShown(<<<<1>>, <<2>>>>, 3))
  /\ InitNotes(3, "hash")
  /\ InitCycler(<<<<1>>, <<2>>>>)
  /\ InitStore(1, FALSE)
  /\ InitDest(<<"udp">>)
  /\ observed = FALSE

\* the steps of the thread that runs Scheduler.run_forever
LoopStep ==
  \/ RunForeverCall(FALSE)
  \/ LoopTop
  \/ Sleep
  \/ DrainTick
  \/ Collect
  \/ Decide
  \/ ComposeLayer
  \/ Present
  \/ Callback

\* the steps of the timer thread once it is inside activate
TimerStep ==
  \/ ActivateEnter(1)
  \/ ActivatePage(1)
  \/ ActivateLayer(1)

NextReveal ==
  \/ ClockAdvance
  \/ \E i \in Layers, pic \in Pictures : DataChange(i, pic)
  \/ LoopStep
  \/ TimerFire
  \/ TimerStep

\* time passes and both threads are scheduled while they can run; nothing
\* obliges the data to change or the timer to fire again
FairReveal ==
  /\ WF_vars(ClockAdvance)
  /\ WF_vars(LoopStep)
  /\ WF_vars(TimerStep)

SpecReveal == InitReveal /\ [][NextReveal]_vars /\ FairReveal

(***************************************************************************)
(* DataStore: the fetch loop of start(), stop() and read()                 *)
(***************************************************************************)
\* what the data store's actions leave alone outside the store
besideStore == <<sinkVars, kindVars, apiVars, pageVars, destVars, layerVars, compVars, cfr, heap,
                 next_cfr, loopVars, changes, toggles, iterVars, runVars>>

\* the mapping the k-th call of the fetcher returns when it succeeds
Fetched(k) == Copies(k, NumKeys)

\* loop(): while not self._stop
FetchTest ==
  /\ dpc = "test"
  /\ dpc' = IF dstop THEN "exit" ELSE "fetch"
  /\ UNCHANGED <<besideStore, clock, store, objs, dlock, new_data, fetches, dstop, djoin,
                 dinterval, dwake, rpc, robj, rcopy, rresult, reads>>

\* loop(): new_data = self.fetcher() or {}.  The call returns a mapping of
\* its own ("ok"), returns None or {} ("empty"), or raises ("raise"), and then
\* the except clause leads to the sleep
FetchCall(outcome) ==
  /\ dpc = "fetch"
  /\ fetches < MaxFetches
  /\ fetches' = fetches + 1
  /\ IF outcome = "raise"
       THEN /\ dpc' = "sleep"
            /\ UNCHANGED <<objs, new_data>>
       ELSE /\ objs' = [objs EXCEPT ![fetches + 1] =
                          IF outcome = "ok" THEN Fetched(fetches + 1) ELSE <<>>]
            /\ new_data' = fetches + 1
            /\ dpc' = "lock"
  /\ UNCHANGED <<besideStore, clock, store, dlock, dstop, djoin, dinterval, dwake, rpc, robj,
                 rcopy, rresult, reads>>

\* loop(): with self._lock
FetchLock ==
  /\ dpc = "lock"
  /\ dlock = 0
  /\ dlock' = Fetcher
  /\ dpc' = "store"
  /\ UNCHANGED <<besideStore, clock, store, objs, new_data, fetches, dstop, djoin, dinterval,
                 dwake, rpc, robj, rcopy, rresult, reads>>

\* loop(): self._data = new_data, and the with block is left
FetchStore ==
  /\ dpc = "store"
  /\ store' = new_data
  /\ dlock' = 0
  /\ dpc' = "sleep"
  /\ UNCHANGED <<besideStore, clock, objs, new_data, fetches, dstop, djoin, dinterval, dwake,
                 rpc, robj, rcopy, rresult, reads>>

\* loop(): time.sleep(self.interval) begins
FetchSleep ==
  /\ dpc = "sleep"
  /\ dwake' = SleepsUntil(clock)
  /\ dpc' = "asleep"
  /\ UNCHANGED <<besideStore, clock, store, objs, dlock, new_data, fetches, dstop, djoin,
                 dinterval, rpc, robj, rcopy, rresult, reads>>

\* the clock moves on while the loop thread sleeps, followed up to h
Tock(h) ==
  /\ dpc = "asleep"
  /\ clock < dwake
  /\ clock < h
  /\ clock' = clock + 1
  /\ UNCHANGED <<besideStore, dataVars>>

\* loop(): time.sleep returns
FetchWake ==
  /\ dpc = "asleep"
  /\ clock >= dwake
  /\ dpc' = "test"
  /\ UNCHANGED <<besideStore, clock, store, objs, dlock, new_data, fetches, dstop, djoin,
                 dinterval, dwake, rpc, robj, rcopy, rresult, reads>>

\* stop(): self._stop = True, and self._t.join(timeout=1.0) begins
DataStop ==
  /\ ~dstop
  /\ dpc # "new"
  /\ dstop' = TRUE
  /\ djoin' = "joining"
  /\ UNCHANGED <<besideStore, clock, store, objs, dlock, dpc, new_data, fetches,
                 dinterval, dwake, rpc, robj, rcopy, rresult, reads>>

\* the loop thread can outlast the second that join(timeout=1.0) waits: it is
\* inside self.fetcher(), or in a sleep with more than a second to go
JoinExpires ==
  \/ dpc = "fetch"
  \/ dpc = "asleep" /\ dwake - clock > TicksPerSec

\* stop(): join returns, the thread having ended or the second having passed
StopReturn ==
  /\ djoin = "joining"
  /\ dpc = "exit" \/ JoinExpires
  /\ djoin' = "returned"
  /\ UNCHANGED <<besideStore, clock, store, objs, dlock, dpc, new_data, fetches, dstop,
                 dinterval, dwake, rpc, robj, rcopy, rresult, reads>>

\* a thread calls read()
ReadCall(r) ==
  /\ rpc[r] = "idle"
  /\ reads < MaxReads
  /\ reads' = reads + 1
  /\ rpc' = [rpc EXCEPT ![r] = "lock"]
  /\ UNCHANGED <<besideStore, clock, store, objs, dlock, dpc, new_data, fetches, dstop, djoin,
                 dinterval, dwake, robj, rcopy, rresult>>

\* read(): with self._lock, and self._data is evaluated for dict(...)
ReadLock(r) ==
  /\ rpc[r] = "lock"
  /\ dlock = 0
  /\ dlock' = r
  /\ robj' = [robj EXCEPT ![r] = store]
  /\ rcopy' = [rcopy EXCEPT ![r] = <<>>]
  /\ rpc' = [rpc EXCEPT ![r] = "copy"]
  /\ UNCHANGED <<besideStore, clock, store, objs, dpc, new_data, fetches, dstop, djoin,
                 dinterval, dwake, rresult, reads>>

\* read(): dict(...) copies the next key of the object; after the last one
\* the copy is returned and the with block left
ReadCopy(r) ==
  /\ rpc[r] = "copy"
  /\ IF Len(rcopy[r]) < Len(objs[robj[r]])
       THEN /\ rcopy' = [rcopy EXCEPT ![r] = Append(@, objs[robj[r]][Len(@) + 1])]
            /\ UNCHANGED <<dlock, rpc, rresult>>
       ELSE /\ rresult' = [rresult EXCEPT ![r] =
                             [id |-> CopyId(r, robj[r]), map |-> rcopy[r], at |-> clock]]
            /\ dlock' = 0
            /\ rpc' = [rpc EXCEPT ![r] = "idle"]
            /\ UNCHANGED rcopy
  /\ UNCHANGED <<besideStore, clock, store, objs, dpc, new_data, fetches, dstop, djoin,
                 dinterval, dwake, robj, reads>>

\* a started store whose loop sleeps one clock unit, and its readers
InitData ==
  /\ InitSinkMode(TRUE)
  /\ InitLoop(NumLayers, [i \in 1..NumLayers |-> i], 0)
  /\ InitNotes(NumLayers, "hash")
  /\ InitCycler(<<>>)
  /\ InitStore(1, TRUE)
  /\ InitDest(<<"udp">>)
  /\ observed = FALSE

NextData ==
  \/ FetchTest
  \/ \E outcome \in {"ok", "empty", "raise"} : FetchCall(outcome)
  \/ FetchLock
  \/ FetchStore
  \/ FetchSleep
  \/ Tock(MaxTime)
  \/ FetchWake
  \/ DataStop
  \/ StopReturn
  \/ \E r \in Readers : ReadCall(r)
  \/ \E r \in Readers : ReadLock(r)
  \/ \E r \in Readers : ReadCopy(r)

SpecData == InitData /\ [][NextData]_vars

\* the same store with an interval as long as the clock is followed, so that a
\* stop() can fall into the middle of a sleep
InitStop ==
  /\ InitSinkMode(TRUE)
  /\ InitLoop(NumLayers, [i \in 1..NumLayers |-> i], 0)
  /\ InitNotes(NumLayers, "hash")
  /\ InitCycler(<<>>)
  /\ InitStore(MaxTime, TRUE)
  /\ InitDest(<<"udp">>)
  /\ observed = FALSE

SpecStop == InitStop /\ [][NextData]_vars

(***************************************************************************)
(* Scenario C: interval 1.0, a fetcher that raises on its second call,     *)
(* 2.5 simulated seconds                                                   *)
(***************************************************************************)
HorizonC == 2 * TicksPerSec + TicksPerSec \div 2

\* the fetcher of the scenario: the call after the first one raises
OutcomeC == IF fetches = 1 THEN "raise" ELSE "ok"

InitC ==
  /\ InitSinkMode(TRUE)
  /\ InitLoop(NumLayers, [i \in 1..NumLayers |-> i], 0)
  /\ InitNotes(NumLayers, "hash")
  /\ InitCycler(<<>>)
  /\ InitStore(TicksPerSec, TRUE)
  /\ InitDest(<<"udp">>)
  /\ observed = FALSE

NextC ==
  \/ FetchTest
  \/ FetchCall(OutcomeC)
  \/ FetchLock
  \/ FetchStore
  \/ FetchSleep
  \/ Tock(HorizonC)
  \/ FetchWake
  \/ \E r \in Readers : ReadCall(r)
  \/ \E r \in Readers : ReadLock(r)
  \/ \E r \in Readers : ReadCopy(r)

SpecC == InitC /\ [][NextC]_vars

(***************************************************************************)
(* FFMPEGStreamer._dest for udp and http destinations                      *)
(***************************************************************************)
\* what a destination begins with: scheme, host and port
Schemes == {"udp", "UDP", "http"}

\* the pieces a query string is made of
QueryPieces == {"?", "&", "pkt_size", "=", "500", "ttl"}

\* the destinations of the model
Urls ==
  {<<sc>> \o q : sc \in Schemes,
                 q \in UNION {[1..n -> QueryPieces] : n \in 0..MaxUrlLen}}

\* (parsed.scheme or "").lower()
Lower(sc) == IF sc = "UDP" THEN "udp" ELSE sc

\* needle in url: the pieces of needle stand side by side somewhere in url
Contains(url, needle) ==
  \E k \in 1..(Len(url) - Len(needle) + 1) :
    SubSeq(url, k, k + Len(needle) - 1) = needle

\* a test that never finds the parameter
HasPktSizeNever(url) == FALSE

\* "pkt_size=" in url
HasPktSize(url) == Contains(url, <<"pkt_size", "=">>)

\* _dest(), the url of its result: a udp destination without "pkt_size="
\* gets the parameter appended, after "&" if it has a "?" and after "?" if
\* not; an http destination is returned as it is
Dest(url) ==
  IF Lower(url[1]) = "udp" /\ ~HasPktSize(url)
    THEN url \o <<IF Contains(url, <<"?">>) THEN "&" ELSE "?",
                  "pkt_size", "=", ToString(udp_pkt_size)>>
    ELSE url

\* _dest() is applied to the destination, and then to the URL it returned
DestCall ==
  /\ Len(dests) < 2
  /\ dests' = Append(dests, Dest(IF dests = <<>> THEN out_url ELSE dests[Len(dests)]))
  /\ UNCHANGED <<sinkVars, schedVars, kindVars, apiVars, pageVars, dataVars, out_url>>

InitUrls ==
  /\ InitSinkMode(TRUE)
  /\ InitLoop(NumLayers, [i \in 1..NumLayers |-> i], 0)
  /\ InitNotes(NumLayers, "hash")
  /\ InitCycler(<<>>)
  /\ InitStore(1, FALSE)
  /\ \E u \in Urls : InitDest(u)
  /\ observed = FALSE

SpecDest == InitUrls /\ [][DestCall]_vars

(***************************************************************************)
(* Specification of the streamer                                           *)
(***************************************************************************)
Init ==
  /\ InitSink
  /\ InitLoop(NumLayers, [i \in 1..NumLayers |-> i], 0)
  /\ InitKinds(NumLayers, "hash")
  /\ observed = FALSE

Next ==
  \/ \E p \in Procs : ProcExit(p)
  \/ CallStart
  \/ CallSend
  \/ CallStop
  \/ StartCheck
  \/ StartPopen
  \/ StartWriter
  \/ SendCheck
  \/ SendPut
  \/ SendWrite
  \/ SendBrokenPipe
  \/ RestartStart
  \/ SendReturnFalse
  \/ StopSignal
  \/ StopJoin
  \/ StopClose
  \/ StopWait
  \/ \E w \in Writers : WriterTop(w)
  \/ \E w \in Writers : WriterGet(w)
  \/ \E w \in Writers : WriterLock(w)
  \/ \E w \in Writers : WriterBegin(w)
  \/ \E w \in Writers : WriterEnd(w)
  \/ \E w \in Writers : WriterBroken(w)
  \/ \E w \in Writers : WriterFail(w)

Spec == Init /\ [][Next]_vars

(***************************************************************************)
(* Specification of the scheduler: the loop thread, the wall clock, the    *)
(* layers' data and the page cycler's visibility changes                   *)
(***************************************************************************)
NextSched ==
  \/ ClockAdvance
  \/ \E i \in Layers, pic \in Pictures : DataChange(i, pic)
  \/ \E i \in Layers, flag \in BOOLEAN : SetVisible(i, flag)
  \/ \E given \in BOOLEAN : RunForeverCall(given)
  \/ LoopTop
  \/ Sleep
  \/ DrainTick
  \/ Collect
  \/ Decide
  \/ ComposeLayer
  \/ Present
  \/ Callback

InitS == InitSinkMode(TRUE) /\ InitSched /\ InitKinds(NumLayers, "hash")

SpecSched == InitS /\ [][NextSched]_vars

(***************************************************************************)
(* The scheduler with layers whose drawing can fail                        *)
(***************************************************************************)
NextCrash ==
  \/ NextSched
  \/ TickRaises

SpecCrash == InitS /\ [][NextCrash]_vars

(***************************************************************************)
(* The scheduler with layers constructed with any interval from 0 to 2     *)
(* units, and the time of every layer's last tick kept                     *)
(***************************************************************************)
InitCadence ==
  /\ InitSinkMode(TRUE)
  /\ \E req \in [1..NumLayers -> 0..2] :
       InitLoop(NumLayers, [i \in 1..NumLayers |-> Clamp(req[i])], 0)
  /\ InitKinds(NumLayers, "hash")
  /\ observed = TRUE

\* the loop and the clock, the layers' data and visibility left as they are
NextCadence ==
  \/ ClockAdvance
  \/ RunForeverCall(FALSE)
  \/ LoopTop
  \/ Sleep
  \/ DrainTick
  \/ Collect
  \/ Decide
  \/ ComposeLayer
  \/ Present
  \/ Callback

SpecCadence == InitCadence /\ [][NextCadence]_vars

(***************************************************************************)
(* Scenario A: two layers with cadences 1.0 s and 0.5 s, no fixed rate,    *)
(* a simulated clock followed for two seconds                              *)
(***************************************************************************)
HorizonA == 2 * TicksPerSec

InitA ==
  /\ InitSinkMode(TRUE)
  /\ InitLoop(2, <<TicksPerSec, TicksPerSec \div 2>>, 0)
  /\ InitKinds(2, "hash")
  /\ observed = TRUE

NextA ==
  \/ \E i \in Layers, pic \in Pictures : DataChange(i, pic)
  \/ \E given \in BOOLEAN : RunForeverCall(given)
  \/ LoopTop
  \/ SleepSimulated(HorizonA)
  \/ DrainTick
  \/ Collect
  \/ Decide
  \/ ComposeLayer
  \/ Present
  \/ Callback

SpecA == InitA /\ [][NextA]_vars

\* the simulated clock has run its two seconds: the loop sleeps towards a
\* deadline at or past the horizon
EndA == spc = "sleep" /\ WakeAt >= HorizonA

(***************************************************************************)
(* Scenario B: a fixed rate of 10 Hz, layers whose ticks never return a    *)
(* rect, a simulated clock followed for one second.  The tenth deadline is *)
(* ten periods after construction, at the end of the second, and the pass  *)
(* made at it belongs to the scenario.                                     *)
(***************************************************************************)
HorizonB == TicksPerSec

InitB ==
  /\ InitSinkMode(TRUE)
  /\ \E iv \in [1..2 -> {2, 5, TicksPerSec}] : InitLoop(2, iv, 10)
  /\ InitKinds(2, "plain")
  /\ observed = TRUE

NextB ==
  \/ \E given \in BOOLEAN : RunForeverCall(given)
  \/ LoopTop
  \/ SleepSimulated(HorizonB + 1)
  \/ DrainTick
  \/ Collect
  \/ Decide
  \/ Callback

SpecB == InitB /\ [][NextB]_vars

\* the simulated clock has run its second: the loop sleeps towards a deadline
\* past the horizon
EndB == spc = "sleep" /\ WakeAt > HorizonB

(***************************************************************************)
(* Properties of the streamer                                              *)
(***************************************************************************)

\* C1: at every moment at most one encoder subprocess launched by the
\* streamer is alive.
C1_AtMostOneEncoderAlive == Cardinality(AliveProcs) <= 1

\* C2: in drop-when-behind mode the queue never holds more than max_queue
\* entries, and a send() that finds the queue at capacity returns False at
\* once and leaves the queue as it was.
C2_QueueBoundedDropWhenFull ==
  /\ [](Len(queue) <= max_queue)
  /\ [][(apc = "send_put" /\ apc' # apc /\ drop_when_behind
           /\ Len(queue) >= max_queue)
        => (queue' = queue /\ sendResult' = "False" /\ apc' = "idle")]_vars

\* a send() has just returned False on a full queue
C2_Witness ==
  /\ drop_when_behind
  /\ apc = "idle" /\ lastOp = "send" /\ sendResult = "False"
  /\ Len(queue) = max_queue

\* C3: a send() that begins after the subprocess has died launches exactly
\* one replacement, and no launch is ever made while the current subprocess
\* is alive, so further send() calls and queued frames launch nothing more.
C3_OneRestartPerDeath ==
  /\ [](drop_when_behind => alaunch <= 1)
  /\ []((drop_when_behind /\ apc = "send_put" /\ aneed) => alaunch = 1)
  /\ [][launched' > launched => (proc = 0 \/ ~PollIsNone(proc))]_vars

\* the writer has marked the subprocess dead, and a later send() that found
\* the replacement alive has returned without launching anything
C3_Witness ==
  /\ drop_when_behind
  /\ launched = 2 /\ proc = 2 /\ PollIsNone(proc) /\ proc_dead
  /\ apc = "idle" /\ lastOp = "send" /\ alaunch = 0

\* C4: the frames written to an encoder stdin are in the order in which they
\* were passed to send(), none of them twice.
C4_WrittenInSendOrder ==
  \A i, j \in 1..Len(written) : i < j => written[i][2] < written[j][2]

\* C5: once stop() has returned, the writer thread has exited, every stdin
\* pipe is closed and no subprocess of the streamer is alive.
C5_StoppedMeansAllGone ==
  (apc = "idle" /\ lastOp = "stop") =>
     /\ AliveProcs = {}
     /\ \A w \in Writers : ~IsAlive(w)
     /\ \A p \in Procs : ~stdinOpen[p]

(***************************************************************************)
(* Properties of the scheduler                                             *)
(***************************************************************************)

\* C6: a run_forever that was given a should_stop predicate ends only by
\* returning to its caller, never by raising.
C6_ShouldStopExitsCleanly ==
  (should_stop /\ spc \in {"raised", "returned"}) => spc = "returned"

\* C7: a pass that collected a dirty rect composes once, presents once and
\* calls on_present once with the new front buffer; otherwise a pass whose
\* fixed-rate deadline has been reached calls on_present once with the
\* unchanged front buffer and does not compose; any other pass does not call
\* on_present.
C7_OneCallbackPerPresentation ==
  spc = "top" =>
    IF dirty # <<>>
      THEN /\ iterComposes = 1 /\ iterPresents = 1 /\ iterCallbacks = 1
           /\ front = Other(iterFront) /\ frame = front
      ELSE IF cfr # 0 /\ now >= iterNextCfr
        THEN /\ iterComposes = 0 /\ iterPresents = 0 /\ iterCallbacks = 1
             /\ front = iterFront /\ frame = front
        ELSE iterComposes = 0 /\ iterPresents = 0 /\ iterCallbacks = 0

\* a pass without dirty rects has just re-presented the front buffer at the
\* fixed rate
C7_Witness ==
  /\ spc = "top" /\ cfr # 0 /\ dirty = <<>> /\ iterTicked # <<>>
  /\ iterCallbacks = 1 /\ iterComposes = 0

\* C8: after construction and whenever the loop is not between the pop and
\* the re-push of one layer, the heap holds exactly one entry per layer.
C8_OneHeapEntryPerLayer ==
  spc # "collect" =>
    /\ Len(heap) = nlayers
    /\ \A i \in Layers : Cardinality({n \in 1..Len(heap) : heap[n][2] = i}) = 1

\* a later pass has ticked every layer and is over
C8_Witness ==
  /\ spc = "top" /\ clock >= 2 /\ now >= 2
  /\ Len(iterTicked) = nlayers

\* C9: every layer that was due is ticked once and re-pushed one interval
\* after now, visible or not; dirty holds rects only of layers that were
\* visible when their rects were looked at; a pass in which no visible layer
\* returned rects does not compose.
C9_HiddenLayersTickButStayClean ==
  /\ spc \in {"top", "compose", "callback"} =>
       /\ {iterTicked[n] : n \in 1..Len(iterTicked)} = iterDue
       /\ Len(iterTicked) = Cardinality(iterDue)
       /\ \A i \in iterDue : \E n \in 1..Len(heap) :
            heap[n] = <<now + min_interval[i], i>>
  /\ {dirty[n] : n \in 1..Len(dirty)} = iterChanged \cap iterShown
  /\ (iterChanged \cap iterShown = {}) => iterComposes = 0

\* a pass in which only a hidden layer changed is over, without a compose
C9_Witness ==
  /\ spc = "top"
  /\ iterChanged # {} /\ iterChanged \cap iterShown = {}
  /\ iterComposes = 0

\* C10 as stated: at the end of scenario A the 1.0 s layer has been ticked 2
\* times and the 0.5 s layer 4 times, and on_present was called once per tick
\* that reported a dirty rect.
C10_OneCallbackPerDirtyTick ==
  EndA => (ticks = <<2, 4>> /\ callbacks = dirtyTicks)

\* C10 as amended: ... and on_present was called once per pass of the loop
\* in which at least one tick reported a dirty rect.
C10_OneCallbackPerDirtyPass ==
  EndA => (ticks = <<2, 4>> /\ callbacks = dirtyIters)

\* the scenario is over, and ticks of the same pass have shared a callback
C10_Witness ==
  EndA /\ callbacks >= 2 /\ dirtyTicks > callbacks

C12_PresentTwiceSameBuffer ==
  Len(returned) = 2 => returned[1] = returned[2]

\* C13: whatever the order of the list given to compose(), the buffer it
\* composed holds the visible layers that have an area painted in ascending
\* z, the highest on top, and nothing of the other layers.
C13_PaintedInAscendingZ == buffers = expected

\* C14: the first tick of a layer after set_visible(True) has shown it again
\* returns a rect, whatever has become of its data.
C14_ReshownLayerTicksDirty ==
  (ops > 0 /\ tnote = "reshown") => rects > 0

C16_TickFailureStaysInTick ==
  ~should_stop => spc # "raised"

\* C17: whenever the scheduler thread is at a point where it reads the layers'
\* visibility (the look at a ticked layer's rects, the loop of compose), the
\* layers of exactly one page are visible, also while the timer thread is
\* inside activate
C17_OnePageShownToCompose ==
  (spc \in {"collect", "compose"}) => \E p \in 1..Len(pages) : OnlyPageShown(p)

\* C18: once every activate call has returned, the layers of exactly the page
\* of the cycler's index are visible, and that index is the argument of one of
\* the calls modulo the page count
C18_AfterActivatesOnePage ==
  (acts > 0 /\ \A t \in Callers : tpc[t] = "idle") =>
     /\ OnlyPageShown(pindex + 1)
     /\ \E t \in Callers : pindex = targ[t] % Len(pages)

\* C19: whatever the interleaving of read() calls with the fetch loop, a
\* read() returns a dict of its own, never an object the loop has held, and its
\* contents are the empty mapping or the whole mapping of one fetch
C19_ReadReturnsOneSnapshot ==
  \A r \in Readers :
    rresult[r].at >= 0 =>
      /\ rresult[r].map \in {objs[k] : k \in 0..fetches}
      /\ rresult[r].id \notin 0..fetches

C19_Witness ==
  \E r \in Readers :
    /\ rresult[r].at >= 0
    /\ rresult[r].map # <<>>
    /\ rresult[r].map # objs[store]
    /\ dpc = "store"

\* C20: in scenario C the failed second fetch leaves the snapshot of the
\* first one in place and the loop goes on, so that a read() made 1.5 s after
\* the start returns the first fetch's mapping; the third call of the fetcher
\* is made at 2.0 s, and a read() made at 2.5 s returns its mapping
C20_FirstValueUntilThirdFetch ==
  /\ \A r \in Readers :
       /\ rresult[r].at = TicksPerSec + TicksPerSec \div 2 => rresult[r].map = Fetched(1)
       /\ rresult[r].at = HorizonC => rresult[r].map = Fetched(3)
  /\ (fetches = 2 /\ dpc \in {"sleep", "asleep"}) => objs[store] = Fetched(1)
  /\ clock = HorizonC => (fetches = 3 /\ dpc = "asleep")

C20_Witness ==
  \E r, q \in Readers :
    /\ rresult[r].at = TicksPerSec + TicksPerSec \div 2
    /\ rresult[r].map = Fetched(1)
    /\ rresult[q].at = HorizonC
    /\ rresult[q].map = Fetched(3)

\* C20 as stated: a read() made 2.5 s after the start still returns the
\* mapping of the first fetch
C20_FirstValueAtHorizon ==
  \A r \in Readers : rresult[r].at = HorizonC => rresult[r].map = Fetched(1)

\* C21: once the stop signal of the fetch loop is set while the loop sleeps,
\* the sleep ends: the loop does not sleep on while the clock moves
C21_StopEndsTheSleep ==
  [][(dstop /\ dpc = "asleep") => clock' = clock]_vars

\* C30: once stop() has returned, self._data is never assigned again
C30_NoStoreAfterStop ==
  [][djoin = "returned" => store' = store]_vars

\* C22: the destination udp://127.0.0.1:5000 gets ?pkt_size=1316 appended,
\* udp://127.0.0.1:5000?pkt_size=500 is returned as it is, and _dest applied
\* to a URL it returned returns that URL
C22_PktSizeAppendedOnce ==
  /\ (out_url = <<"udp">> /\ dests # <<>>) =>
        dests[1] = <<"udp", "?", "pkt_size", "=", "1316">>
  /\ (out_url = <<"udp", "?", "pkt_size", "=", "500">> /\ dests # <<>>) =>
        dests[1] = out_url
  /\ Len(dests) = 2 => dests[2] = dests[1]

C22_Witness ==
  /\ out_url = <<"udp">>
  /\ Len(dests) = 2
  /\ dests[1] # out_url
  /\ dests[2] = dests[1]

\* C23: the layer that the drain step pops and ticks has the smallest index
\* among the layers whose heap entries share its deadline, so layers with one
\* deadline are ticked in ascending index
C23_TiesTickedByIndex ==
  [][(spc = "drain" /\ spc' = "collect") =>
       \A n \in 1..Len(heap) : heap[n][1] = heap[1][1] => cur' <= heap[n][2]]_vars

\* the first pass, in which every layer has the deadline of the construction,
\* has ticked all of them, lowest index first
C23_Witness ==
  /\ clock = 0 /\ spc = "compose"
  /\ nlayers > 1 /\ iterTicked = Ascending(nlayers)

\* C24: no step changes the contents of the front buffer, nor those of the
\* buffer handed to on_present last: compose() clears and paints the other
\* buffer, and present() swaps without painting
C24_FrontBufferUntouched ==
  [][/\ buffers'[front] = buffers[front]
     /\ frame # "none" => buffers'[frame] = buffers[frame]]_vars

\* a second compose() has painted the back buffer with something else than
\* the frame handed out before, which is still the front buffer
C24_Witness ==
  /\ spc = "compose" /\ ci > nlayers
  /\ frame = front
  /\ buffers[front] # <<>>
  /\ buffers[Other(front)] # buffers[front]

\* C25: a layer is ticked at most once in the drain step of one pass, and a
\* tick of a layer comes at least the layer's min_interval after its last
\* one, on the clock readings of the loop
C25_TicksOneIntervalApart ==
  /\ [](\A a, b \in 1..Len(iterTicked) : a # b => iterTicked[a] # iterTicked[b])
  /\ [][(spc = "drain" /\ spc' = "collect" /\ lastTick[cur'] >= 0) =>
          now - lastTick[cur'] >= min_interval[cur']]_vars

\* a layer of the smallest interval has been ticked again, one unit after a
\* tick
C25_Witness ==
  \E i \in Layers :
    /\ ticks[i] >= 2 /\ min_interval[i] = 1
    /\ spc = "collect" /\ cur = i /\ lastTick[i] = now

\* C26: in synchronous mode, when the write of send() has failed, the stop()
\* of the restart leaves the failed subprocess dead, its stdin closed and
\* self.proc unset; the start() of the restart launches one subprocess and no
\* more; send() returns False with that subprocess as self.proc, and the
\* frame is written to no subprocess
C26_SyncRestartDropsFrame ==
  /\ [](~drop_when_behind =>
          /\ apc = "restart_start" =>
                (proc = 0 /\ ~PollIsNone(launched) /\ ~stdinOpen[launched])
          /\ apc = "send_false" => (proc # 0 /\ proc = launched)
          /\ (apc = "idle" /\ lastOp = "send" /\ sendResult = "False") =>
                \A n \in 1..Len(written) : written[n][2] # aframe)
  /\ [][(~drop_when_behind /\ astack # <<>> /\ Head(astack) = "send_false") =>
          /\ (apc = "start_check" /\ apc' # apc) => apc' = "start_popen"
          /\ (apc = "start_popen" /\ apc' # apc) =>
                (launched' = launched + 1 /\ apc' = "send_false")
          /\ apc' = apc => launched' = launched]_vars

\* a frame was written, the subprocess died, and the next send() has restarted
\* and returned False
C26_Witness ==
  /\ ~drop_when_behind
  /\ apc = "idle" /\ lastOp = "send" /\ sendResult = "False"
  /\ written = <<<<1, 1>>>> /\ aframe = 2
  /\ proc = 2 /\ PollIsNone(2)

\* C28: at no time are two writer threads in the loop with the stop event
\* clear, taking frames from the queue
C28_OneWriterDrains ==
  Cardinality({w \in Writers : wpc[w] = "get"}) <= 1

\* C29: in drop-when-behind mode the writer thread created by the latest
\* start() keeps running while the stop event is clear: a sentinel left in
\* the queue by an earlier stop() does not end it (no other writer is alive)
C29_NewWriterStaysRunning ==
  (/\ drop_when_behind
   /\ writer_thread # 0
   /\ ~stop_event
   /\ \A w \in Writers : w # writer_thread => wpc[w] \in {"unborn", "exited"})
    => wpc[writer_thread] # "exited"

\* the layers pasted into buffer b
LayersIn(b) == {buffers[b][n][1] : n \in 1..Len(buffers[b])}

\* buffer b holds every layer of page p and no layer of another page
FrameOfPage(b, p) ==
  /\ PageLayers(pages, p) \subseteq LayersIn(b)
  /\ \A q \in 1..Len(pages) : q # p => LayersIn(b) \cap PageLayers(pages, q) = {}

\* an activate call was made and the timer thread is outside activate
ActivateReturned == acts > 0 /\ tpc[1] = "idle"

\* the clock's bound was reached while a tick that reports a rect was still to
\* come: some layer's hash is not the hash of its content
HorizonBeforeTick ==
  clock = MaxTime /\ \E i \in Layers : HashDiffers(Hash(ldata[i]), last_hash[i])

=============================================================================
